---------------------------- MODULE Spec2Model ----------------------------
(***************************************************************************)
(* Model of arimatakao/simple-events-handler: the HTTP handlers of         *)
(* internal/server (POST /events, GET /events), the event store of         *)
(* internal/database (events and user_event_counts tables) and the cron    *)
(* driven aggregator of internal/aggregator.                               *)
(*                                                                         *)
(* Text (query values, environment values) is a sequence of tokens: a      *)
(* token is one character ("%", "+", " ", ":", "T", "Z", a digit, a hex    *)
(* digit) or an indivisible chunk without any character that URL decoding  *)
(* treats specially (a date "2025-01-01", a two digit field "00").         *)
(* Instants are integers counted in ticks from 2025-01-01T00:00:00Z.       *)
(***************************************************************************)
EXTENDS Integers, Sequences, FiniteSets, TLC

VARIABLES
    envInterval,  \* value of AGGREGATION_INTERVAL_SECONDS (text, <<>> = unset)
    agg,          \* result of aggregator.New: [created, intervalSecond, err]
    clock,        \* wall clock, in ticks
    events,       \* table events, in insertion order
    buckets,      \* table user_event_counts, a set of rows
    running,      \* cron.Cron.running
    entries,      \* cron entries: sequence of [next |-> instant or NoTime]
    jobs,         \* aggregation job goroutines launched so far
    last,         \* the last operation and, for a request, its outcome
    proc          \* the process: "starting", "serving", "shuttingDown", "exited"

vars ==
    <<envInterval, agg, clock, events, buckets, running, entries, jobs, last,
      proc>>

---------------------------------------------------------------------------
(* Bounds of the model *)

MaxClock == 5

MaxEvents == 2

MaxCommitLag == 1

---------------------------------------------------------------------------
(* Time *)

\* time.Second, in ticks of the model clock
TicksPerSecond == 2

SecondsPerDay == 86400

NoTime == -1000000

FloorSecond(t) == t - (t % TicksPerSecond)

---------------------------------------------------------------------------
(* Text helpers *)

Digit == [c \in {"0", "1", "2", "3", "4", "5", "6", "7", "8", "9"} |->
            CASE c = "0" -> 0 [] c = "1" -> 1 [] c = "2" -> 2 [] c = "3" -> 3
              [] c = "4" -> 4 [] c = "5" -> 5 [] c = "6" -> 6 [] c = "7" -> 7
              [] c = "8" -> 8 [] c = "9" -> 9]

IsDigit(c) == c \in DOMAIN Digit

RECURSIVE DigitsValue(_)
DigitsValue(s) ==
    IF s = <<>> THEN 0
    ELSE 10 * DigitsValue(SubSeq(s, 1, Len(s) - 1)) + Digit[s[Len(s)]]

\* strconv.ParseInt(v, 10, 64) and strconv.Atoi: optional sign, then digits
ParseInt(s) ==
    LET signed == Len(s) >= 1 /\ s[1] \in {"+", "-"}
        digits == IF signed THEN Tail(s) ELSE s
    IN  IF digits = <<>> \/ \E i \in 1..Len(digits) : ~IsDigit(digits[i])
        THEN [ok |-> FALSE, v |-> 0]
        ELSE [ok |-> TRUE,
              v  |-> IF signed /\ s[1] = "-" THEN 0 - DigitsValue(digits)
                     ELSE DigitsValue(digits)]

---------------------------------------------------------------------------
(* net/url.QueryUnescape *)

HexDigits == {"0", "1", "2", "3", "4", "5", "6", "7", "8", "9",
              "A", "B", "C", "D", "E", "F", "a", "b", "c", "d", "e", "f"}

\* the character a %XX escape denotes ("?" stands for every other byte)
HexByte(h, l) ==
    CASE h = "2" /\ l = "0" -> " "
      [] h = "2" /\ l = "5" -> "%"
      [] h = "2" /\ l \in {"B", "b"} -> "+"
      [] h = "2" /\ l \in {"D", "d"} -> "-"
      [] h = "3" /\ l \in {"A", "a"} -> ":"
      [] h = "3" /\ IsDigit(l) -> l
      [] h = "5" /\ l \in {"A", "a"} -> "Z"
      [] h = "5" /\ l = "4" -> "T"
      [] OTHER -> "?"

\* every "%" is followed by two hex digits
EscapesValid(s) ==
    \A i \in 1..Len(s) :
        s[i] = "%" => /\ i + 2 <= Len(s)
                      /\ s[i + 1] \in HexDigits
                      /\ s[i + 2] \in HexDigits

RECURSIVE UnescapeFrom(_)
UnescapeFrom(s) ==
    IF s = <<>> THEN <<>>
    ELSE IF s[1] = "%"
         THEN <<HexByte(s[2], s[3])>> \o UnescapeFrom(SubSeq(s, 4, Len(s)))
         ELSE IF s[1] = "+"
              THEN <<" ">> \o UnescapeFrom(Tail(s))
              ELSE <<s[1]>> \o UnescapeFrom(Tail(s))

QueryUnescape(s) ==
    IF EscapesValid(s) THEN [err |-> FALSE, s |-> UnescapeFrom(s)]
    ELSE [err |-> TRUE, s |-> <<>>]

\* gin Context.Query: the value of the raw query decoded once; a value that
\* does not decode is dropped and reads as the empty string
Query(raw) ==
    LET u == QueryUnescape(raw) IN IF u.err THEN <<>> ELSE u.s

WhiteSpace == {" ", "\t", "\n", "\r"}

RECURSIVE TrimLeft(_)
TrimLeft(s) ==
    IF s # <<>> /\ s[1] \in WhiteSpace THEN TrimLeft(Tail(s)) ELSE s

RECURSIVE TrimRight(_)
TrimRight(s) ==
    IF s # <<>> /\ s[Len(s)] \in WhiteSpace
    THEN TrimRight(SubSeq(s, 1, Len(s) - 1)) ELSE s

\* mutant of TrimSpace: nothing is trimmed
TrimSpaceNone(s) == s

TrimSpace(s) == TrimRight(TrimLeft(s))

---------------------------------------------------------------------------
(* time.Parse for the five layouts of parseTimeFlexible *)

\* the date chunks the model knows, as days since 2025-01-01
DateDays == [d \in {"2025-01-01", "2025-01-02"} |->
                IF d = "2025-01-01" THEN 0 ELSE 1]

\* two digit fields
TwoDigit == [f \in {"00", "01", "02", "03", "59", "23", "24", "60"} |->
                CASE f = "00" -> 0 [] f = "01" -> 1 [] f = "02" -> 2
                  [] f = "03" -> 3 [] f = "59" -> 59 [] f = "23" -> 23
                  [] f = "24" -> 24 [] f = "60" -> 60]

\* fractional seconds, in ticks
FracTicks == [f \in {"0", "5", "500"} |-> IF f = "0" THEN 0 ELSE 1]

\* "2006-01-02" sep "15:04:05" at the head of s
HasDateTime(s, sep) ==
    /\ Len(s) >= 7
    /\ s[1] \in DOMAIN DateDays
    /\ s[2] = sep
    /\ s[3] \in DOMAIN TwoDigit /\ TwoDigit[s[3]] < 24
    /\ s[4] = ":"
    /\ s[5] \in DOMAIN TwoDigit /\ TwoDigit[s[5]] < 60
    /\ s[6] = ":"
    /\ s[7] \in DOMAIN TwoDigit /\ TwoDigit[s[7]] < 60

DateTimeTicks(s) ==
    (DateDays[s[1]] * SecondsPerDay
        + TwoDigit[s[3]] * 3600 + TwoDigit[s[5]] * 60 + TwoDigit[s[7]])
    * TicksPerSecond

\* a fractional second directly after the seconds field is accepted by
\* time.Parse whether or not the layout names one
HasFrac(rest) ==
    Len(rest) >= 2 /\ rest[1] \in {".", ","} /\ rest[2] \in DOMAIN FracTicks

AfterFrac(rest) == IF HasFrac(rest) THEN SubSeq(rest, 3, Len(rest)) ELSE rest

FracOf(rest) == IF HasFrac(rest) THEN FracTicks[rest[2]] ELSE 0

\* "Z07:00": Z, or a sign and hh:mm
ParseZone(z) ==
    IF z = <<"Z">> THEN [ok |-> TRUE, off |-> 0]
    ELSE IF /\ Len(z) = 4
            /\ z[1] \in {"+", "-"}
            /\ z[2] \in DOMAIN TwoDigit /\ TwoDigit[z[2]] < 24
            /\ z[3] = ":"
            /\ z[4] \in DOMAIN TwoDigit /\ TwoDigit[z[4]] < 60
         THEN [ok  |-> TRUE,
               off |-> (IF z[1] = "-" THEN -1 ELSE 1)
                       * (TwoDigit[z[2]] * 3600 + TwoDigit[z[4]] * 60)
                       * TicksPerSecond]
         ELSE [ok |-> FALSE, off |-> 0]

Layouts == <<"RFC3339", "RFC3339Nano", "2006-01-02 15:04:05",
             "2006-01-02T15:04:05", "2006-01-02">>

TimeParse(layout, s) ==
    LET bad  == [ok |-> FALSE, t |-> 0]
        rest == SubSeq(s, 8, Len(s))
    IN  CASE layout \in {"RFC3339", "RFC3339Nano"} ->
                IF HasDateTime(s, "T") /\ ParseZone(AfterFrac(rest)).ok
                THEN [ok |-> TRUE,
                      t  |-> DateTimeTicks(s) + FracOf(rest)
                             - ParseZone(AfterFrac(rest)).off]
                ELSE bad
          [] layout = "2006-01-02 15:04:05" ->
                IF HasDateTime(s, " ") /\ AfterFrac(rest) = <<>>
                THEN [ok |-> TRUE, t |-> DateTimeTicks(s) + FracOf(rest)]
                ELSE bad
          [] layout = "2006-01-02T15:04:05" ->
                IF HasDateTime(s, "T") /\ AfterFrac(rest) = <<>>
                THEN [ok |-> TRUE, t |-> DateTimeTicks(s) + FracOf(rest)]
                ELSE bad
          [] layout = "2006-01-02" ->
                IF Len(s) = 1 /\ s[1] \in DOMAIN DateDays
                THEN [ok |-> TRUE,
                      t  |-> DateDays[s[1]] * SecondsPerDay * TicksPerSecond]
                ELSE bad

---------------------------------------------------------------------------
(* internal/server: request validation *)

MaxUnescape == 3

RECURSIVE UnescapeLoop(_, _)
UnescapeLoop(uv, i) ==
    IF i = 0 THEN uv
    ELSE LET u == QueryUnescape(uv)
         IN  IF u.err \/ u.s = uv THEN uv ELSE UnescapeLoop(u.s, i - 1)

RECURSIVE FirstLayout(_, _)
FirstLayout(uv, i) ==
    IF i > Len(Layouts) THEN [ok |-> FALSE, t |-> 0]
    ELSE IF TimeParse(Layouts[i], uv).ok THEN TimeParse(Layouts[i], uv)
         ELSE FirstLayout(uv, i + 1)

\* GetEventsRequest.parseTimeFlexible: [err, t], err = "" for a nil error
parseTimeFlexible(v) ==
    IF v = <<>> THEN [err |-> "empty time string", t |-> 0]
    ELSE LET uv == TrimSpace(UnescapeLoop(v, MaxUnescape))
         IN  IF uv = <<>> THEN [err |-> "empty time after unescape", t |-> 0]
             ELSE IF FirstLayout(uv, 1).ok
                  THEN [err |-> "", t |-> FirstLayout(uv, 1).t]
                  ELSE [err |-> "unrecognized time format", t |-> 0]

\* mutant of After: a bound equal to the other counts as after it
AfterOrEqual(t, u) == t >= u

\* time.Time.After
After(t, u) == t > u

\* mutant of GetEventsRequestValidate: an empty to is not an error, the
\* range then ends where it starts
GetEventsRequestValidateToOptional(r) ==
    LET bad(e) == [err |-> e, start |-> 0, end |-> 0]
        start  == parseTimeFlexible(r.From)
        end    == IF r.To = <<>> THEN start ELSE parseTimeFlexible(r.To)
    IN  IF ~r.UserID.isNil /\ r.UserID.v <= 0
        THEN bad(<<"user_id must be a positive integer">>)
        ELSE IF r.From = <<>> THEN bad(<<"from paramater">>)
        ELSE IF start.err # "" THEN bad(<<"invalid from parameter", start.err>>)
        ELSE IF end.err # "" THEN bad(<<"invalid to parameter", end.err>>)
        ELSE IF After(start.t, end.t)
             THEN bad(<<"from must be before or equal to to">>)
             ELSE [err |-> <<>>, start |-> start.t, end |-> end.t]

\* GetEventsRequest.Validate: [err, start, end]; err = <<>> for a nil error
GetEventsRequestValidate(r) ==
    LET bad(e) == [err |-> e, start |-> 0, end |-> 0]
        start  == parseTimeFlexible(r.From)
        end    == parseTimeFlexible(r.To)
    IN  IF ~r.UserID.isNil /\ r.UserID.v <= 0
        THEN bad(<<"user_id must be a positive integer">>)
        ELSE IF r.From = <<>> THEN bad(<<"from paramater">>)
        ELSE IF start.err # "" THEN bad(<<"invalid from parameter", start.err>>)
        ELSE IF end.err # "" THEN bad(<<"invalid to parameter", end.err>>)
        ELSE IF After(start.t, end.t)
             THEN bad(<<"from must be before or equal to to">>)
             ELSE [err |-> <<>>, start |-> start.t, end |-> end.t]

\* mutant of AddEventRequestValidate: the user_id is not looked at
AddEventRequestValidateNoUserID(a) ==
    IF a.action = "" THEN "action is required" ELSE ""

\* AddEventRequest.Validate: "" for a nil error
AddEventRequestValidate(a) ==
    IF a.user_id <= 0 THEN "user_id must be a positive integer"
    ELSE IF a.action = "" THEN "action is required"
    ELSE ""

\* gin ShouldBindJSON into AddEventRequest (user_id and action are
\* binding:"required", which rejects the zero value): "" for a nil error
ShouldBindJSON(body) ==
    IF ~body.wellFormed THEN "invalid character"
    ELSE IF body.user_id = 0 THEN "UserID failed on the 'required' tag"
    ELSE IF body.action = "" THEN "Action failed on the 'required' tag"
    ELSE ""

---------------------------------------------------------------------------
(* internal/database: the store *)

NilMetadata == [isNil |-> TRUE, kv |-> <<>>]

NullString == [valid |-> FALSE, str |-> ""]

\* mutant of MetadataPage: the value of any key is stored
MetadataPageAnyKey(metadata) ==
    IF ~metadata.isNil /\ DOMAIN metadata.kv # {}
    THEN [valid |-> TRUE,
          str |-> metadata.kv[CHOOSE k \in DOMAIN metadata.kv :
                                 \A j \in DOMAIN metadata.kv : k # "page" \/ j = "page"]]
    ELSE NullString

\* the metadata_page parameter InsertEvent hands to the INSERT
MetadataPage(metadata) ==
    IF ~metadata.isNil /\ "page" \in DOMAIN metadata.kv
    THEN [valid |-> TRUE, str |-> metadata.kv["page"]]
    ELSE NullString

\* mutant of InsertRow: the new row takes the place of the table's rows
InsertRowReplaces(evs, userID, action, metadata, createdAt) ==
    <<[id            |-> Len(evs) + 1,
       user_id       |-> userID,
       action        |-> action,
       metadata_page |-> MetadataPage(metadata),
       created_at    |-> createdAt]>>

\* INSERT INTO events(user_id, action, metadata_page) ... RETURNING id;
\* created_at DEFAULT now() is the time the insert's transaction began
InsertRow(evs, userID, action, metadata, createdAt) ==
    Append(evs, [id            |-> Len(evs) + 1,
                 user_id       |-> userID,
                 action        |-> action,
                 metadata_page |-> MetadataPage(metadata),
                 created_at    |-> createdAt])

\* mutant of GetEventsMatch: the end of the range is exclusive
GetEventsMatchExclusiveEnd(e, userID, start, end) ==
    /\ userID.isNil \/ e.user_id = userID.v
    /\ e.created_at >= start
    /\ e.created_at < end

\* WHERE ($1 IS NULL OR user_id = $1) AND created_at >= $2 AND created_at <= $3
GetEventsMatch(e, userID, start, end) ==
    /\ userID.isNil \/ e.user_id = userID.v
    /\ e.created_at >= start
    /\ e.created_at <= end

\* ORDER BY created_at DESC
OrderedDesc(rows) ==
    \A i, j \in 1..Len(rows) : i < j => rows[i].created_at >= rows[j].created_at

\* the result sets the SELECT of GetEvents may return: the matching rows in
\* any order that ORDER BY created_at DESC allows (ties in either order)
GetEventsResults(evs, userID, start, end) ==
    LET m == {i \in 1..Len(evs) : GetEventsMatch(evs[i], userID, start, end)}
        n == Cardinality(m)
    IN  {[k \in 1..n |-> evs[f[k]]] :
            f \in {g \in [1..n -> m] :
                     /\ \A a, b \in 1..n : a # b => g[a] # g[b]
                     /\ OrderedDesc([k \in 1..n |-> evs[g[k]]])}}

\* mutant of InWindow: the end of the window is inclusive
InWindowInclusiveEnd(e, periodStart, periodEnd) ==
    e.created_at >= periodStart /\ e.created_at <= periodEnd

\* SELECT user_id, $1, $2, COUNT(*) FROM events
\* WHERE created_at >= $1 AND created_at < $2 GROUP BY user_id
InWindow(e, periodStart, periodEnd) ==
    e.created_at >= periodStart /\ e.created_at < periodEnd

AggregateRows(evs, periodStart, periodEnd) ==
    {[user_id      |-> u,
      period_start |-> periodStart,
      period_end   |-> periodEnd,
      event_count  |-> Cardinality({i \in 1..Len(evs) :
                          /\ evs[i].user_id = u
                          /\ InWindow(evs[i], periodStart, periodEnd)})] :
        u \in {evs[i].user_id : i \in {j \in 1..Len(evs) :
                                  InWindow(evs[j], periodStart, periodEnd)}}}

\* mutant of Upsert: on conflict the new count is added to the old one
UpsertAdds(table, rows) ==
    LET conflict(old) == \E r \in rows : /\ r.user_id = old.user_id
                                        /\ r.period_start = old.period_start
        excluded(old) == CHOOSE r \in rows : /\ r.user_id = old.user_id
                                             /\ r.period_start = old.period_start
    IN  {IF conflict(old)
         THEN [old EXCEPT !.event_count = old.event_count
                                          + excluded(old).event_count]
         ELSE old : old \in table}
        \cup {r \in rows : ~\E old \in table :
                              /\ r.user_id = old.user_id
                              /\ r.period_start = old.period_start}

\* INSERT ... ON CONFLICT (user_id, period_start)
\* DO UPDATE SET event_count = EXCLUDED.event_count
Upsert(table, rows) ==
    LET conflict(old) == \E r \in rows : /\ r.user_id = old.user_id
                                        /\ r.period_start = old.period_start
        excluded(old) == CHOOSE r \in rows : /\ r.user_id = old.user_id
                                             /\ r.period_start = old.period_start
    IN  {IF conflict(old)
         THEN [old EXCEPT !.event_count = excluded(old).event_count]
         ELSE old : old \in table}
        \cup {r \in rows : ~\E old \in table :
                              /\ r.user_id = old.user_id
                              /\ r.period_start = old.period_start}

---------------------------------------------------------------------------
(* internal/server: the handlers, as functions of the request and of the
   outcome of the store call they make *)

EmptyBody == [kind |-> "empty", error |-> "", hasDetails |-> FALSE,
              details |-> <<>>, arr |-> <<>>]

\* gin.H{"error": e, "details": d}
ErrorDetails(e, d) == [kind |-> "object", error |-> e, hasDetails |-> TRUE,
                       details |-> d, arr |-> <<>>]

\* gin.H{"error": e}
ErrorOnly(e) == [kind |-> "object", error |-> e, hasDetails |-> FALSE,
                 details |-> <<>>, arr |-> <<>>]

\* the JSON array of events (make([]Event, 0) marshals to [] when empty)
ArrayBody(rows) == [kind |-> "array", error |-> "", hasDetails |-> FALSE,
                    details |-> <<>>, arr |-> rows]

StatusOK == 200

StatusCreated == 201

StatusBadRequest == 400

StatusInternalServerError == 500

\* mutant of AddEvent: a valid request calls InsertEvent twice
AddEventInsertsTwice(body, dbErr) ==
    LET call == [fn |-> "InsertEvent", user_id |-> body.user_id,
                 action |-> body.action, metadata |-> body.metadata]
    IN  IF ShouldBindJSON(body) # "" \/ AddEventRequestValidate(body) # ""
        THEN [status |-> StatusBadRequest,
              body   |-> ErrorDetails("invalid request", <<"rejected">>),
              calls  |-> <<>>]
        ELSE IF dbErr
        THEN [status |-> StatusInternalServerError,
              body   |-> ErrorOnly("failed to insert event"),
              calls  |-> <<call, call>>]
        ELSE [status |-> StatusCreated,
              body   |-> EmptyBody,
              calls  |-> <<call, call>>]

\* mutant of AddEvent: the store's error is handed to the client
AddEventLeaksError(body, dbErr) ==
    LET call == [fn |-> "InsertEvent", user_id |-> body.user_id,
                 action |-> body.action, metadata |-> body.metadata]
    IN  IF ShouldBindJSON(body) # "" \/ AddEventRequestValidate(body) # ""
        THEN [status |-> StatusBadRequest,
              body   |-> ErrorDetails("invalid request", <<"rejected">>),
              calls  |-> <<>>]
        ELSE IF dbErr
        THEN [status |-> StatusInternalServerError,
              body   |-> ErrorDetails("failed to insert event",
                                      <<"store error">>),
              calls  |-> <<call>>]
        ELSE [status |-> StatusCreated,
              body   |-> EmptyBody,
              calls  |-> <<call>>]

\* AddEventHandler: the response and the store calls made, given the body
\* and whether the store's InsertEvent fails
AddEvent(body, dbErr) ==
    IF ShouldBindJSON(body) # ""
    THEN [status |-> StatusBadRequest,
          body   |-> ErrorDetails("invalid request", <<ShouldBindJSON(body)>>),
          calls  |-> <<>>]
    ELSE IF AddEventRequestValidate(body) # ""
    THEN [status |-> StatusBadRequest,
          body   |-> ErrorDetails("validation failed",
                                  <<AddEventRequestValidate(body)>>),
          calls  |-> <<>>]
    ELSE LET call == [fn |-> "InsertEvent", user_id |-> body.user_id,
                      action |-> body.action, metadata |-> body.metadata]
         IN  IF dbErr
             THEN [status |-> StatusInternalServerError,
                   body   |-> ErrorOnly("failed to insert event"),
                   calls  |-> <<call>>]
             ELSE [status |-> StatusCreated,
                   body   |-> EmptyBody,
                   calls  |-> <<call>>]

\* the optional user_id of GetEventsHandler: [err, isNil, v]
QueryUserID(raw) ==
    LET v == Query(raw)
    IN  IF v = <<>> THEN [err |-> FALSE, isNil |-> TRUE, v |-> 0]
        ELSE IF ~ParseInt(v).ok THEN [err |-> TRUE, isNil |-> TRUE, v |-> 0]
        ELSE [err |-> FALSE, isNil |-> FALSE, v |-> ParseInt(v).v]

\* GetEventsHandler: the responses possible and the store calls made, given
\* the raw query values, whether the store's GetEvents fails and the table
GetEvents(q, dbErr, evs) ==
    LET uid == QueryUserID(q.user_id)
        req == [UserID |-> [isNil |-> uid.isNil, v |-> uid.v],
                From   |-> Query(q.from),
                To     |-> Query(q.to)]
        val == GetEventsRequestValidate(req)
        call == [fn |-> "GetEvents", userID |-> req.UserID,
                 start |-> val.start, end |-> val.end]
    IN  IF uid.err
        THEN {[status |-> StatusBadRequest,
               body   |-> ErrorOnly("invalid user_id"),
               calls  |-> <<>>]}
        ELSE IF val.err # <<>>
        THEN {[status |-> StatusBadRequest,
               body   |-> ErrorDetails("invalid time format", val.err),
               calls  |-> <<>>]}
        ELSE IF dbErr
        THEN {[status |-> StatusInternalServerError,
               body   |-> ErrorOnly("failed to fetch events"),
               calls  |-> <<call>>]}
        ELSE {[status |-> StatusOK,
               body   |-> ArrayBody(rows),
               calls  |-> <<call>>] :
                 rows \in GetEventsResults(evs, req.UserID, val.start, val.end)}

\* the events table after the InsertEvent calls of one request
RECURSIVE ApplyInserts(_, _, _, _)
ApplyInserts(evs, calls, dbErr, createdAt) ==
    IF calls = <<>> \/ dbErr THEN evs
    ELSE ApplyInserts(InsertRow(evs, calls[1].user_id, calls[1].action,
                                calls[1].metadata, createdAt),
                      Tail(calls), dbErr, createdAt)

---------------------------------------------------------------------------
(* internal/aggregator *)

DefaultAggSeconds == 60

\* mutant of New: a value that is not an integer is refused
NewRejectsNonInteger(env) ==
    IF env # <<>> /\ (~ParseInt(env).ok \/ ParseInt(env).v <= 0)
    THEN [created |-> FALSE, intervalSecond |-> 0,
          err |-> "invalid range number of AGGREGATION_INTERVAL_SECONDS"]
    ELSE [created        |-> TRUE,
          intervalSecond |-> IF env # <<>> THEN ParseInt(env).v
                             ELSE DefaultAggSeconds,
          err            |-> ""]

\* aggregator.New, up to the choice of the interval
New(env) ==
    IF env # <<>> /\ ParseInt(env).ok /\ ParseInt(env).v <= 0
    THEN [created |-> FALSE, intervalSecond |-> 0,
          err |-> "invalid range number of AGGREGATION_INTERVAL_SECONDS"]
    ELSE [created        |-> TRUE,
          intervalSecond |-> IF env # <<>> /\ ParseInt(env).ok
                             THEN ParseInt(env).v ELSE DefaultAggSeconds,
          err            |-> ""]

\* cron.AddFunc in New registers the job once; the entry has no Next yet
NewEntries(a) == IF a.created THEN <<[next |-> NoTime]>> ELSE <<>>

\* the "@every Ns" schedule (cron.ConstantDelaySchedule.Next): the instant
\* rounded down to the second, plus the delay
ScheduleNext(t, seconds) == FloorSecond(t) + seconds * TicksPerSecond

\* mutant of StartCron: the running flag is not looked at, every Start
\* registers the job again and starts another run loop
StartCronAgain(isRunning, ents, now, seconds) ==
    [running |-> TRUE,
     entries |-> IF isRunning
                 THEN Append(ents, [next |-> ScheduleNext(now, seconds)])
                 ELSE [i \in 1..Len(ents) |->
                          [next |-> ScheduleNext(now, seconds)]]]

\* Aggregator.Start (cron.Start): nothing when already running, else the
\* scheduler runs and every entry gets its first Next
StartCron(isRunning, ents, now, seconds) ==
    IF isRunning THEN [running |-> TRUE, entries |-> ents]
    ELSE [running |-> TRUE,
          entries |-> [i \in 1..Len(ents) |->
                          [next |-> ScheduleNext(now, seconds)]]]

\* Aggregator.Stop (cron.Stop): the scheduler no longer runs; jobs already
\* launched are left alone
StopCron(isRunning, ents) == [running |-> FALSE, entries |-> ents]

\* the cron run loop wakes for entry e
Due(isRunning, e, now) == isRunning /\ e.next # NoTime /\ now >= e.next

\* the job goroutine the run loop launches
NewJob == [pc |-> "start", periodStart |-> NoTime, periodEnd |-> NoTime,
           calls |-> 0, err |-> FALSE]

\* AggregateEvents: periodEnd := time.Now().UTC(), periodStart := periodEnd
\* minus the interval
Window(now, seconds) ==
    [periodStart |-> now - seconds * TicksPerSecond, periodEnd |-> now]

\* mutant of JobAfterExec: a failed aggregation is tried once more
JobRetries(job, dbErr) ==
    [job EXCEPT !.pc = IF dbErr /\ job.calls = 0 THEN "exec" ELSE "done",
                !.calls = job.calls + 1,
                !.err = dbErr]

\* the job closure after db.AggregateEvents returned: the error is logged,
\* nothing else happens
JobAfterExec(job, dbErr) ==
    [job EXCEPT !.pc = "done", !.calls = job.calls + 1, !.err = dbErr]

---------------------------------------------------------------------------
(* Inputs *)

Malformed == [wellFormed |-> FALSE, user_id |-> 0, action |-> "",
              metadata |-> NilMetadata]

Metadatas ==
    {NilMetadata,
     [isNil |-> FALSE, kv |-> [k \in {"page", "other"} |->
                                  IF k = "page" THEN "/home" ELSE "y"]],
     [isNil |-> FALSE, kv |-> [k \in {"other"} |-> "y"]]}

Bodies ==
    {Malformed} \cup
    [wellFormed : {TRUE}, user_id : {-1, 0, 1, 2}, action : {"", "click"},
     metadata : Metadatas]

Instant0 == <<"2025-01-01", "T", "00", ":", "00", ":", "00", "Z">>

Instant1 == <<"2025-01-01", "T", "00", ":", "00", ":", "01", "Z">>

NotATime == <<"not-a-time">>

TimeTexts == {<<>>, NotATime, Instant0, Instant1}

UserIDTexts == {<<>>, <<"1">>, <<"0">>, <<"-", "1">>, <<"x">>}

Queries == [user_id : UserIDTexts, from : TimeTexts, to : TimeTexts]

\* the requests of the whole-program specification
SystemBodies ==
    {b \in Bodies :
        /\ b.wellFormed /\ b.action = "click"
        /\ \/ b.user_id = 1 /\ b.metadata = NilMetadata
           \/ b.user_id = 2 /\ b.metadata # NilMetadata
                            /\ "page" \in DOMAIN b.metadata.kv
           \/ b.user_id = 0 /\ b.metadata = NilMetadata}
    \cup {b \in Bodies :
             /\ b.wellFormed /\ b.metadata = NilMetadata
             /\ \/ b.user_id = -1 /\ b.action = "click"
                \/ b.user_id = 1 /\ b.action = ""}

SystemQueries ==
    {[user_id |-> <<>>, from |-> Instant0, to |-> Instant1],
     [user_id |-> <<"1">>, from |-> Instant1, to |-> Instant0]}

EnvTexts == {<<>>, <<"1">>, <<"0">>, <<"-", "1">>, <<"x">>}

---------------------------------------------------------------------------
(* The state machine *)

\* no request is being served
Idle == [op |-> "none", req |-> <<>>, status |-> 0, body |-> EmptyBody,
         calls |-> <<>>, storeErr |-> FALSE]

Init ==
    /\ envInterval \in EnvTexts
    /\ agg = New(envInterval)
    /\ clock = 0
    /\ events = <<>>
    /\ buckets = {}
    /\ running = FALSE
    /\ entries = NewEntries(agg)
    /\ jobs = <<>>
    /\ last = Idle
    /\ proc = "serving"

\* time passes
ClockAdvance ==
    /\ last = Idle
    /\ clock < MaxClock
    /\ clock' = clock + 1
    /\ UNCHANGED <<proc, envInterval, agg, events, buckets, running, entries, jobs,
                   last>>

\* POST /events with a body of `bodies`: the handler runs, the response is
\* written
AddEventHandler(bodies) ==
    /\ last = Idle
    /\ \E body \in bodies, dbErr \in BOOLEAN, lag \in 0..MaxCommitLag :
        LET out == AddEvent(body, dbErr)
        IN  /\ lag <= clock
            /\ dbErr => out.calls # <<>>
            /\ (out.calls # <<>> /\ ~dbErr) => Len(events) < MaxEvents
            /\ events' = ApplyInserts(events, out.calls, dbErr, clock - lag)
            /\ last' = [op |-> "AddEvent", req |-> body,
                        status |-> out.status, body |-> out.body,
                        calls |-> out.calls, storeErr |-> dbErr]
    /\ UNCHANGED <<proc, envInterval, agg, clock, buckets, running, entries, jobs>>

\* GET /events with a query of `queries`: the handler runs, the response is
\* written
GetEventsHandler(queries) ==
    /\ last = Idle
    /\ \E q \in queries, dbErr \in BOOLEAN :
        \E out \in GetEvents(q, dbErr, events) :
            /\ dbErr => out.calls # <<>>
            /\ last' = [op |-> "GetEvents", req |-> q,
                        status |-> out.status, body |-> out.body,
                        calls |-> out.calls, storeErr |-> dbErr]
    /\ UNCHANGED <<proc, envInterval, agg, clock, events, buckets, running,
                   entries, jobs>>

\* LogMetricsMiddleware after c.Next(): the request is logged and is over
RequestDone ==
    /\ last # Idle
    /\ last' = Idle
    /\ UNCHANGED <<proc, envInterval, agg, clock, events, buckets, running,
                   entries, jobs>>

\* Aggregator.Start
Start ==
    /\ last = Idle
    /\ agg.created
    /\ running' = StartCron(running, entries, clock, agg.intervalSecond).running
    /\ entries' = StartCron(running, entries, clock, agg.intervalSecond).entries
    /\ UNCHANGED <<proc, envInterval, agg, clock, events, buckets, jobs, last>>

\* Aggregator.Stop
Stop ==
    /\ last = Idle
    /\ agg.created
    /\ running' = StopCron(running, entries).running
    /\ entries' = StopCron(running, entries).entries
    /\ UNCHANGED <<proc, envInterval, agg, clock, events, buckets, jobs, last>>

\* the cron run loop fires a due entry: the job goroutine is launched and
\* the entry rescheduled
TickFire ==
    /\ last = Idle
    /\ \E i \in 1..Len(entries) :
        /\ Due(running, entries[i], clock)
        /\ jobs' = Append(jobs, NewJob)
        /\ entries' = [entries EXCEPT
                         ![i] = [next |-> ScheduleNext(clock, agg.intervalSecond)]]
    /\ UNCHANGED <<proc, envInterval, agg, clock, events, buckets, running, last>>

\* a job reads the clock (AggregateEvents, before the statement is sent)
AggregateNow ==
    /\ last = Idle
    /\ \E j \in 1..Len(jobs) :
        /\ jobs[j].pc = "start"
        /\ jobs' = [jobs EXCEPT
                      ![j].pc = "exec",
                      ![j].periodStart = Window(clock, agg.intervalSecond).periodStart,
                      ![j].periodEnd = Window(clock, agg.intervalSecond).periodEnd]
    /\ UNCHANGED <<proc, envInterval, agg, clock, events, buckets, running,
                   entries, last>>

\* the store executes the upsert of a job, or fails
AggregateExec ==
    /\ last = Idle
    /\ \E j \in 1..Len(jobs), dbErr \in BOOLEAN :
        /\ jobs[j].pc = "exec"
        /\ jobs' = [jobs EXCEPT ![j] = JobAfterExec(jobs[j], dbErr)]
        /\ buckets' = IF dbErr THEN buckets
                      ELSE Upsert(buckets,
                                  AggregateRows(events, jobs[j].periodStart,
                                                jobs[j].periodEnd))
    /\ UNCHANGED <<proc, envInterval, agg, clock, events, running, entries, last>>

\* the whole program, with a few requests
Next ==
    \/ ClockAdvance
    \/ AddEventHandler(SystemBodies)
    \/ GetEventsHandler(SystemQueries)
    \/ RequestDone
    \/ Start
    \/ Stop
    \/ TickFire
    \/ AggregateNow
    \/ AggregateExec

Spec == Init /\ [][Next]_vars

\* the HTTP server alone (the aggregator is created, never started), with
\* every request of Bodies and Queries
InitRequests == Init /\ envInterval = <<>>

NextRequests ==
    \/ ClockAdvance
    \/ AddEventHandler(Bodies)
    \/ GetEventsHandler(Queries)
    \/ RequestDone

SpecRequests == InitRequests /\ [][NextRequests]_vars


---------------------------------------------------------------------------
(* What the requests of the model denote, written down independently of    *)
(* the code above                                                          *)

\* the instant a time text of TimeTexts denotes, in ticks
Denotes(text) == IF text = Instant1 THEN TicksPerSecond ELSE 0

ValidTimeTexts == {Instant0, Instant1}

\* the user a user_id text names
UserOf(text) == IF text = <<"1">> THEN 1 ELSE 0

ValidUserIDTexts == {<<>>, <<"1">>}

ValidQuery(q) ==
    /\ q.user_id \in ValidUserIDTexts
    /\ q.from \in ValidTimeTexts
    /\ q.to \in ValidTimeTexts
    /\ Denotes(q.from) <= Denotes(q.to)

\* the stored events a valid query asks for
Asked(q) ==
    {i \in 1..Len(events) :
        /\ q.user_id = <<>> \/ events[i].user_id = UserOf(q.user_id)
        /\ Denotes(q.from) <= events[i].created_at
        /\ events[i].created_at <= Denotes(q.to)}

AddServed == last.op = "AddEvent"

GetServed == last.op = "GetEvents"

---------------------------------------------------------------------------
(* Claims about POST /events *)

\* C1: a well-formed creation request with user_id > 0 and a non-empty
\* action calls the store's InsertEvent exactly once, with that user_id and
\* action; when the insert succeeds the answer is 201 Created with an empty
\* body (the generated id is not in it) and the event is the last stored row.
C1_CreateInsertsOnce ==
    (AddServed /\ last.req.wellFormed /\ last.req.user_id > 0
               /\ last.req.action # "")
    => /\ Len(last.calls) = 1
       /\ last.calls[1].fn = "InsertEvent"
       /\ last.calls[1].user_id = last.req.user_id
       /\ last.calls[1].action = last.req.action
       /\ ~last.storeErr =>
            /\ last.status = 201
            /\ last.body.kind = "empty"
            /\ events # <<>>
            /\ events[Len(events)].user_id = last.req.user_id
            /\ events[Len(events)].action = last.req.action
            /\ \A i \in 1..(Len(events) - 1) : events[i].id # events[Len(events)].id

C1_Witness ==
    /\ AddServed /\ last.req.user_id = 2 /\ last.req.action = "click"
    /\ last.status = 201 /\ Len(events) = 2

\* C2: a decodable creation request whose user_id is <= 0, or whose action
\* is empty, is answered with a client error (400, an error with details),
\* InsertEvent is not invoked, and the request leaves the events table as
\* it was.
C2_InvalidCreateRejected ==
    /\ [](( AddServed /\ last.req.wellFormed
              /\ (last.req.user_id <= 0 \/ last.req.action = ""))
            => /\ last.status = 400
               /\ last.body.kind = "object" /\ last.body.hasDetails
               /\ last.calls = <<>>)
    /\ [][( last'.op = "AddEvent" /\ last # last' /\ last'.req.wellFormed
              /\ (last'.req.user_id <= 0 \/ last'.req.action = ""))
            => events' = events]_vars

C2_Witness ==
    /\ AddServed /\ last.req.wellFormed /\ last.req.user_id = -1
    /\ last.req.action = "click" /\ last.status = 400 /\ Len(events) = 1

---------------------------------------------------------------------------
(* Claims about GET /events *)

\* C3: a query whose from is strictly after its to is answered with a
\* client error and GetEvents is not invoked; a query with from equal to to
\* (and an acceptable user_id) invokes GetEvents once, with start = end =
\* that instant.
C3_RangeOrder ==
    (GetServed /\ last.req.from \in ValidTimeTexts
               /\ last.req.to \in ValidTimeTexts)
    => /\ Denotes(last.req.from) > Denotes(last.req.to)
            => last.status = 400 /\ last.calls = <<>>
       /\ (/\ Denotes(last.req.from) = Denotes(last.req.to)
           /\ last.req.user_id \in ValidUserIDTexts)
            => /\ Len(last.calls) = 1
               /\ last.calls[1].fn = "GetEvents"
               /\ last.calls[1].start = Denotes(last.req.from)
               /\ last.calls[1].end = Denotes(last.req.from)

C3_Witness ==
    /\ GetServed /\ last.req.from = Instant1 /\ last.req.to = Instant1
    /\ last.status = 200 /\ Len(last.body.arr) = 1

\* C4: a valid query whose store call succeeds is answered 200 with a JSON
\* array holding exactly the stored events with from <= created_at <= to
\* (both bounds inclusive) and, when user_id is given, with that user_id;
\* the array is ordered by created_at descending and is the empty array,
\* not an error, when no event matches.
C4_QueryResult ==
    (GetServed /\ ValidQuery(last.req) /\ ~last.storeErr)
    => /\ last.status = 200
       /\ last.body.kind = "array"
       /\ Len(last.body.arr) = Cardinality(Asked(last.req))
       /\ {last.body.arr[k] : k \in 1..Len(last.body.arr)}
            = {events[i] : i \in Asked(last.req)}
       /\ \A a, b \in 1..Len(last.body.arr) :
            a < b => last.body.arr[a].created_at >= last.body.arr[b].created_at
       /\ last.calls = <<[fn |-> "GetEvents",
                          userID |-> [isNil |-> last.req.user_id = <<>>,
                                      v |-> UserOf(last.req.user_id)],
                          start |-> Denotes(last.req.from),
                          end |-> Denotes(last.req.to)]>>

C4_Witness ==
    /\ GetServed /\ last.status = 200 /\ last.req.user_id = <<"1">>
    /\ last.req.from = Instant0 /\ last.req.to = Instant1
    /\ Len(last.body.arr) = 1 /\ Len(events) = 2
    /\ last.body.arr[1].created_at = Denotes(Instant1)

\* C9: a query whose user_id is present and not an integer or <= 0, or
\* whose from is missing or unparseable, or whose to is missing or
\* unparseable, is answered with a client error and GetEvents is not
\* invoked (a missing to is a failure, it is not replaced by the current
\* time).
C9_InvalidQueryRejected ==
    (GetServed /\ (\/ last.req.user_id \notin ValidUserIDTexts
                   \/ last.req.from \notin ValidTimeTexts
                   \/ last.req.to \notin ValidTimeTexts))
    => last.status = 400 /\ last.body.kind = "object" /\ last.calls = <<>>

C9_Witness ==
    /\ GetServed /\ last.req.user_id = <<"1">> /\ last.req.from = Instant0
    /\ last.req.to = <<>> /\ last.status = 400 /\ Len(events) = 1
    /\ clock > Denotes(Instant0)

\* C10: when the store call of a request fails, the answer is 500 with the
\* fixed body {error: "failed to insert event"} (creation) or
\* {error: "failed to fetch events"} (query) and no details field, and the
\* store was invoked exactly once for the request.
C10_StoreFailure ==
    (last.op # "none" /\ last.storeErr)
    => /\ last.status = 500
       /\ last.body.kind = "object"
       /\ ~last.body.hasDetails /\ last.body.details = <<>>
       /\ last.body.error = IF AddServed THEN "failed to insert event"
                            ELSE "failed to fetch events"
       /\ Len(last.calls) = 1

C10_Witness ==
    /\ AddServed /\ last.storeErr /\ last.status = 500
    /\ last.req.user_id = 1 /\ Len(events) = 1


---------------------------------------------------------------------------
(* Claims about the aggregation *)

Users == {1, 2}

\* the number of stored events of user u created in [periodStart, periodEnd)
CountIn(u, periodStart, periodEnd) ==
    Cardinality({i \in 1..Len(events) :
                    /\ events[i].user_id = u
                    /\ periodStart <= events[i].created_at
                    /\ events[i].created_at < periodEnd})

\* this step is job j's AggregateEvents returning without / with an error
ExecOk(j) ==
    /\ Len(jobs') = Len(jobs) /\ jobs[j].pc = "exec"
    /\ jobs'[j].pc = "done" /\ ~jobs'[j].err

ExecFailed(j) ==
    /\ Len(jobs') = Len(jobs) /\ jobs[j].pc = "exec"
    /\ jobs'[j].calls = jobs[j].calls + 1 /\ jobs'[j].err

IntervalTicks == agg.intervalSecond * TicksPerSecond

\* C5: a tick takes period_end = now and period_start = period_end minus
\* the interval; when its upsert succeeds, every user with at least one
\* event with period_start <= created_at < period_end has the bucket
\* (user_id, period_start, period_end, number of such events), and the
\* buckets of a user with no event in the window are as they were.
C5_TickCounts ==
    /\ [][\A j \in 1..Len(jobs) :
            (/\ Len(jobs') = Len(jobs)
             /\ jobs[j].pc = "start" /\ jobs'[j].pc = "exec")
            => /\ jobs'[j].periodEnd = clock
               /\ jobs'[j].periodStart = clock - IntervalTicks]_vars
    /\ [][\A j \in 1..Len(jobs) : ExecOk(j) =>
            \A u \in Users :
              LET n == CountIn(u, jobs[j].periodStart, jobs[j].periodEnd)
              IN  /\ n > 0 =>
                       [user_id |-> u, period_start |-> jobs[j].periodStart,
                        period_end |-> jobs[j].periodEnd, event_count |-> n]
                          \in buckets'
                  /\ n = 0 =>
                       {r \in buckets' : r.user_id = u}
                          = {r \in buckets : r.user_id = u}]_vars

C5_Witness ==
    /\ \E j \in 1..Len(jobs) :
         /\ jobs[j].pc = "done" /\ ~jobs[j].err
         /\ CountIn(1, jobs[j].periodStart, jobs[j].periodEnd) = MaxEvents
         /\ [user_id |-> 1, period_start |-> jobs[j].periodStart,
             period_end |-> jobs[j].periodEnd, event_count |-> MaxEvents]
               \in buckets
    /\ \A r \in buckets : r.user_id = 1

\* C6: the summary table never holds two rows with the same (user_id,
\* period_start); a tick whose window and counts are already in the table
\* (the same window run again over the same events) leaves the table as it
\* is: the count is overwritten with the same value, not added to.
C6_IdempotentUpsert ==
    /\ [](\A r1, r2 \in buckets :
            (r1.user_id = r2.user_id /\ r1.period_start = r2.period_start)
            => r1 = r2)
    /\ [][\A j \in 1..Len(jobs) :
            (/\ ExecOk(j)
             /\ \A u \in Users :
                  LET n == CountIn(u, jobs[j].periodStart, jobs[j].periodEnd)
                  IN  n > 0 =>
                        [user_id |-> u, period_start |-> jobs[j].periodStart,
                         period_end |-> jobs[j].periodEnd, event_count |-> n]
                           \in buckets)
            => buckets' = buckets]_vars

\* two ticks ran the same window and a bucket of that window counts events
C6_Witness ==
    \E j, k \in 1..Len(jobs) :
        /\ j < k
        /\ jobs[j].pc = "done" /\ ~jobs[j].err
        /\ jobs[k].pc = "done" /\ ~jobs[k].err
        /\ jobs[j].periodStart = jobs[k].periodStart
        /\ jobs[j].periodEnd = jobs[k].periodEnd
        /\ \E r \in buckets :
              /\ r.period_start = jobs[j].periodStart
              /\ r.event_count = MaxEvents

\* C7: the scheduler is Stopped or Running; Start makes it Running and Stop
\* makes it Stopped; Start on a running scheduler changes nothing, so one
\* job stays registered; a tick begins only while Running and when the
\* entry is due, launches one job, and moves the entry's next firing a whole
\* interval past the second of the firing, so that no second tick follows
\* within the same interval.
C7_SchedulerStates ==
    /\ [](agg.created =>
            /\ Len(entries) = 1
            /\ StartCron(running, entries, clock, agg.intervalSecond).running
            /\ ~StopCron(running, entries).running
            /\ running =>
                 StartCron(running, entries, clock, agg.intervalSecond).entries
                   = entries)
    /\ [][Len(jobs') > Len(jobs)
            => /\ running /\ running'
               /\ Len(jobs') = Len(jobs) + 1
               /\ entries[1].next <= clock
               /\ entries'[1].next = FloorSecond(clock) + IntervalTicks]_vars
    /\ [][(running /\ running' /\ Len(jobs') = Len(jobs))
            => entries' = entries]_vars
    /\ [][(~running /\ running')
            => entries'[1].next = FloorSecond(clock) + IntervalTicks]_vars

\* the scheduler ran, fired once, and was stopped; its entry is due again
C7_Witness ==
    /\ agg.created /\ ~running /\ Len(jobs) = 1
    /\ entries[1].next <= clock

\* C8: a tick whose AggregateEvents fails calls it once and ends: the
\* scheduler keeps its state (Running stays Running, the entry keeps its
\* next firing), the tables are as they were, no request outcome changes,
\* and a 500 answer only ever comes from the request's own store call.
C8_FailedTick ==
    /\ [](\A j \in 1..Len(jobs) :
            /\ jobs[j].calls <= 1
            /\ jobs[j].calls = 1 <=> jobs[j].pc = "done")
    /\ [](last.status = 500 => last.storeErr)
    /\ [][\A j \in 1..Len(jobs) : ExecFailed(j) =>
            /\ jobs'[j].pc = "done"
            /\ running' = running
            /\ entries' = entries
            /\ buckets' = buckets
            /\ events' = events
            /\ last' = last]_vars

\* a tick failed while Running and the next tick ran and wrote its buckets
C8_Witness ==
    /\ running /\ Len(jobs) = 2
    /\ jobs[1].pc = "done" /\ jobs[1].err
    /\ jobs[2].pc = "done" /\ ~jobs[2].err
    /\ jobs[2].periodEnd > jobs[1].periodEnd
    /\ buckets # {}

---------------------------------------------------------------------------
(* Claims about the metadata projection *)

EventColumns == {"id", "user_id", "action", "metadata_page", "created_at"}

---------------------------------------------------------------------------
(* The flexible timestamp parser on its own *)

\* net/url escaping of a text, the space written as `space`
RECURSIVE Escape(_, _)
Escape(s, space) ==
    IF s = <<>> THEN <<>>
    ELSE (CASE s[1] = " " -> space
            [] s[1] = ":" -> <<"%", "3", "A">>
            [] s[1] = "%" -> <<"%", "2", "5">>
            [] s[1] = "+" -> <<"%", "2", "B">>
            [] OTHER -> <<s[1]>>) \o Escape(Tail(s), space)

\* url.QueryEscape: the space becomes "+"
QueryEscape(s) == Escape(s, <<"+">>)

\* the escaping that writes the space as %20
PercentEscape(s) == Escape(s, <<"%", "2", "0">>)

\* s escaped k times
RECURSIVE EscapeTimes(_, _, _)
EscapeTimes(s, k, plus) ==
    IF k = 0 THEN s
    ELSE EscapeTimes(IF plus THEN QueryEscape(s) ELSE PercentEscape(s),
                     k - 1, plus)

\* how many times a text is escaped before it is parsed
MaxEscapes == 4

Rfc3339Texts ==
    {<<"2025-01-01", "T", "00", ":", "00", ":", "00", "Z">>,
     <<"2025-01-01", "T", "00", ":", "00", ":", "01", "Z">>,
     <<"2025-01-01", "T", "00", ":", "00", ":", "01", ".", "5", "Z">>,
     <<"2025-01-02", "T", "00", ":", "00", ":", "00", "Z">>,
     <<"2025-01-01", "T", "00", ":", "00", ":", "00", "-", "01", ":", "00">>,
     <<"2025-01-01", "T", "00", ":", "00", ":", "00", ".", "5",
       "-", "01", ":", "00">>,
     <<"2025-01-01", "T", "01", ":", "00", ":", "00", "+", "01", ":", "00">>,
     <<"2025-01-01", "T", "01", ":", "00", ":", "00", ".", "5",
       "+", "01", ":", "00">>}

PlainTexts ==
    {<<"2025-01-01", " ", "00", ":", "00", ":", "00">>,
     <<"2025-01-01", "T", "00", ":", "00", ":", "00">>,
     <<"2025-01-01">>,
     <<" ", "2025-01-01", "T", "00", ":", "00", ":", "00", "Z", " ">>}

BadTexts ==
    {<<>>, <<" ">>, NotATime,
     <<"2025-01-01", "T", "24", ":", "00", ":", "00", "Z">>}

ParseTexts == Rfc3339Texts \cup PlainTexts \cup BadTexts

\* the queries a client makes of RFC 3339 timestamps, escaped for the URL
Rfc3339Queries ==
    [user_id : {<<>>},
     from : {QueryEscape(s) : s \in Rfc3339Texts},
     to : {QueryEscape(s) : s \in Rfc3339Texts}]

\* parseTimeFlexible is called on a text escaped k times
ParseTimeFlexible ==
    /\ last.op \in {"none", "parseTimeFlexible"}
    /\ \E s \in ParseTexts, k \in 0..MaxEscapes, plus \in BOOLEAN :
        LET v == EscapeTimes(s, k, plus)
        IN  last' = [op |-> "parseTimeFlexible", text |-> s, times |-> k,
                     v |-> v, res |-> parseTimeFlexible(v)]
    /\ UNCHANGED <<proc, envInterval, agg, clock, events, buckets, running,
                   entries, jobs>>

NextParse ==
    \/ ParseTimeFlexible
    \/ GetEventsHandler(Rfc3339Queries)
    \/ RequestDone

SpecParse == InitRequests /\ [][NextParse]_vars

---------------------------------------------------------------------------
(* Claims about the flexible timestamp parser *)

Parsed == last.op = "parseTimeFlexible"

\* C12: parseTimeFlexible accepts "2025-01-01T00:00:00Z",
\* "2025-01-01 00:00:00" and "2025-01-01", and gives for each the same
\* instant, midnight UTC of 2025-01-01 (tick 0); "not-a-time" fails with
\* the unrecognized-format error; an input that is empty, or is empty once
\* decoded and trimmed, fails with an empty-time error.
C12_FlexibleFormats ==
    Parsed =>
      /\ ( /\ last.times = 0
           /\ last.text \in
                {<<"2025-01-01", "T", "00", ":", "00", ":", "00", "Z">>,
                 <<"2025-01-01", " ", "00", ":", "00", ":", "00">>,
                 <<"2025-01-01">>} )
           => last.res = [err |-> "", t |-> 0]
      /\ (last.times = 0 /\ last.text = <<"not-a-time">>)
           => last.res.err = "unrecognized time format"
      /\ (last.times <= 3 /\ last.text \in {<<>>, <<" ">>})
           => last.res.err \in {"empty time string",
                                "empty time after unescape"}

\* the zone-less form was parsed
C12_Witness ==
    /\ Parsed /\ last.times = 0
    /\ last.v = <<"2025-01-01", " ", "00", ":", "00", ":", "00">>
    /\ last.res = [err |-> "", t |-> 0]

\* the timestamps of the claims: RFC 3339 with each zone designator, with
\* and without a fractional second, the zone-less forms and the date
PlusOffset ==
    <<"2025-01-01", "T", "01", ":", "00", ":", "00", "+", "01", ":", "00">>

PlusOffsetFrac ==
    <<"2025-01-01", "T", "01", ":", "00", ":", "00", ".", "5",
      "+", "01", ":", "00">>

MinusOffset ==
    <<"2025-01-01", "T", "00", ":", "00", ":", "00", "-", "01", ":", "00">>

MinusOffsetFrac ==
    <<"2025-01-01", "T", "00", ":", "00", ":", "00", ".", "5",
      "-", "01", ":", "00">>

\* the instant a timestamp denotes, in ticks (half seconds) since
\* 2025-01-01T00:00:00Z, written out by hand
InstantOf(text) ==
    CASE text = <<"2025-01-01", "T", "00", ":", "00", ":", "00", "Z">> -> 0
      [] text = <<"2025-01-01", "T", "00", ":", "00", ":", "01", "Z">> -> 2
      [] text = <<"2025-01-01", "T", "00", ":", "00", ":", "01", ".", "5", "Z">>
           -> 3
      [] text = <<"2025-01-02", "T", "00", ":", "00", ":", "00", "Z">> -> 172800
      [] text = MinusOffset -> 7200
      [] text = MinusOffsetFrac -> 7201
      [] text = PlusOffset -> 0
      [] text = PlusOffsetFrac -> 1
      [] text = <<"2025-01-01", " ", "00", ":", "00", ":", "00">> -> 0
      [] text = <<"2025-01-01", "T", "00", ":", "00", ":", "00">> -> 0
      [] text = <<"2025-01-01">> -> 0

Rfc3339Timestamps ==
    {<<"2025-01-01", "T", "00", ":", "00", ":", "00", "Z">>,
     <<"2025-01-01", "T", "00", ":", "00", ":", "01", "Z">>,
     <<"2025-01-01", "T", "00", ":", "00", ":", "01", ".", "5", "Z">>,
     <<"2025-01-02", "T", "00", ":", "00", ":", "00", "Z">>,
     MinusOffset, MinusOffsetFrac, PlusOffset, PlusOffsetFrac}

ValidTimestamps ==
    Rfc3339Timestamps \cup
    {<<"2025-01-01", " ", "00", ":", "00", ":", "00">>,
     <<"2025-01-01", "T", "00", ":", "00", ":", "00">>,
     <<"2025-01-01">>}

\* C13: for every valid timestamp s and every k in 0..3, the text got by
\* URL-encoding s k times parses, and parses to the instant s itself
\* parses to, which is the instant s denotes.
C13_EncodedTimesParse ==
    (Parsed /\ last.text \in ValidTimestamps /\ last.times <= 3)
    => /\ last.res.err = ""
       /\ last.res = parseTimeFlexible(last.text)
       /\ last.res.t = InstantOf(last.text)

\* a timestamp with a positive offset, encoded three times, was parsed to
\* its instant, while the timestamp itself is not parsed
C13_Witness ==
    /\ Parsed /\ last.text = PlusOffset /\ last.times = 3
    /\ last.res = [err |-> "", t |-> 0]
    /\ parseTimeFlexible(last.text).err = "unrecognized time format"

\* C14: every RFC 3339 timestamp is parsed to the instant it denotes,
\* whichever its zone designator (Z, -hh:mm, +hh:mm), with or without a
\* fractional second; given as from and to of a query, written URL-encoded
\* as a client writes them, the two instants are the range asked of the
\* store (or, from being after to, the range is refused before the store).
C14_Rfc3339Accepted ==
    /\ (Parsed /\ last.times = 0 /\ last.text \in Rfc3339Timestamps)
         => last.res = [err |-> "", t |-> InstantOf(last.text)]
    /\ GetServed
         => \A f, t \in Rfc3339Timestamps :
              ( /\ last.req.from = Escape(f, <<"+">>)
                /\ last.req.to = Escape(t, <<"+">>) )
              => IF InstantOf(f) > InstantOf(t)
                 THEN last.status = 400 /\ last.calls = <<>>
                      /\ last.body.error = "invalid time format"
                      /\ last.body.details
                           = <<"from must be before or equal to to">>
                 ELSE /\ Len(last.calls) = 1
                      /\ last.calls[1].start = InstantOf(f)
                      /\ last.calls[1].end = InstantOf(t)

\* a query whose from carries a positive offset was refused as not a time
C14_Witness ==
    /\ GetServed /\ last.req.from = Escape(PlusOffset, <<"+">>)
    /\ last.req.to = Escape(MinusOffset, <<"+">>)
    /\ last.status = 400 /\ last.calls = <<>>
    /\ last.body.error = "invalid time format"
    /\ last.body.details
         = <<"invalid from parameter", "unrecognized time format">>

---------------------------------------------------------------------------
(* Claims about the failures of POST /events *)

\* C15: a creation request whose body decodes and whose user_id is <= 0 or
\* whose action is empty is answered with the error "validation failed";
\* the error "invalid request" is given only to bodies that do not decode,
\* and is given to each of them.
C15_ValidationDistinct ==
    AddServed =>
      /\ ( last.req.wellFormed
             /\ (last.req.user_id <= 0 \/ last.req.action = "") )
           => last.body.error = "validation failed"
      /\ last.body.error = "invalid request" => ~last.req.wellFormed
      /\ ~last.req.wellFormed => last.body.error = "invalid request"

\* a body that decodes, with user_id 0, was answered "invalid request"
C15_Witness ==
    /\ AddServed /\ last.req.wellFormed
    /\ last.req.user_id = 0 /\ last.req.action = "click"
    /\ last.status = 400 /\ last.body.error = "invalid request"
    /\ last.calls = <<>>

---------------------------------------------------------------------------
(* Claims about the scheduler's configuration *)

\* no scheduler exists: New returned an error, nothing can be started
NoScheduler ==
    /\ ~agg.created /\ agg.err # ""
    /\ entries = <<>> /\ ~running /\ jobs = <<>>

\* an aggregator with the given interval exists
SchedulerOf(seconds) ==
    /\ agg.created /\ agg.err = "" /\ agg.intervalSecond = seconds
    /\ Len(entries) = 1

---------------------------------------------------------------------------
(* cmd/api: the entrypoint *)

\* main never calls aggregator.New: the process has no aggregator
NoAggregator == [created |-> FALSE, intervalSecond |-> 0, err |-> ""]

\* the process when main begins
InitMain ==
    /\ envInterval \in EnvTexts
    /\ agg = NoAggregator
    /\ clock = 0
    /\ events = <<>>
    /\ buckets = {}
    /\ running = FALSE
    /\ entries = <<>>
    /\ jobs = <<>>
    /\ last = Idle
    /\ proc = "starting"

\* main: server.NewServer, go gracefulShutdown, server.ListenAndServe
MainServe ==
    /\ proc = "starting"
    /\ proc' = "serving"
    /\ UNCHANGED <<envInterval, agg, clock, events, buckets, running,
                   entries, jobs, last>>

\* gracefulShutdown: SIGINT or SIGTERM arrives, apiServer.Shutdown begins
Signal ==
    /\ proc \in {"starting", "serving"}
    /\ proc' = "shuttingDown"
    /\ UNCHANGED <<envInterval, agg, clock, events, buckets, running,
                   entries, jobs, last>>

\* apiServer.Shutdown returns (the requests are over, or the 10 seconds
\* are), done <- true, main logs "Graceful shutdown complete."
MainExit ==
    /\ proc = "shuttingDown"
    /\ proc' = "exited"
    /\ UNCHANGED <<envInterval, agg, clock, events, buckets, running,
                   entries, jobs, last>>

NextMain ==
    \/ MainServe
    \/ Signal
    \/ MainExit
    \/ ClockAdvance
    \/ (proc = "serving" /\ AddEventHandler(SystemBodies))
    \/ (proc = "serving" /\ GetEventsHandler(SystemQueries))
    \/ (proc # "exited" /\ RequestDone)

SpecMain == InitMain /\ [][NextMain]_vars

\* C17: once the entrypoint serves HTTP the aggregation scheduler exists
\* and is Running, and when the process has reported that the shutdown is
\* complete the scheduler has been stopped.
C17_EntrypointRunsScheduler ==
    /\ proc = "serving" => (agg.created /\ running)
    /\ proc = "exited" => ~running

\* the process serves requests and has no aggregator
C17_Witness ==
    /\ proc = "serving" /\ ~agg.created /\ ~running
    /\ last.op = "AddEvent" /\ last.status = 201

---------------------------------------------------------------------------
(* Claims about buckets and windows *)

\* C18: in every reachable state, whatever the interleaving of insertions
\* and aggregation ticks, every bucket row has event_count = the number of
\* stored events of its user_id with period_start <= created_at <
\* period_end.
C18_BucketCounts ==
    \A b \in buckets :
        b.event_count = CountIn(b.user_id, b.period_start, b.period_end)

\* a bucket counts one event of its window and the table holds two: the
\* second was committed after the tick read the table, with a created_at
\* (the beginning of its transaction) inside the window
C18_Witness ==
    \E b \in buckets :
        /\ b.event_count = 1
        /\ CountIn(b.user_id, b.period_start, b.period_end) = 2

\* the program while nothing stops the scheduler: once Running, it stays
\* Running
NextRunning ==
    \/ ClockAdvance
    \/ AddEventHandler(SystemBodies)
    \/ RequestDone
    \/ Start
    \/ TickFire
    \/ AggregateNow
    \/ AggregateExec

SpecRunning == Init /\ [][NextRunning]_vars

\* job j has taken its window
HasWindow(j) == jobs[j].pc # "start"

\* the event of row i lies in the window of bucket b and is of its user
CountedIn(i, b) ==
    /\ events[i].user_id = b.user_id
    /\ b.period_start <= events[i].created_at
    /\ events[i].created_at < b.period_end

\* C19: while the scheduler is Running the windows of two consecutive
\* ticks are different and do not overlap, and no event lies in the
\* windows of two buckets.
C19_WindowsDisjoint ==
    /\ \A j \in 1..(Len(jobs) - 1) :
         (HasWindow(j) /\ HasWindow(j + 1))
         => /\ <<jobs[j].periodStart, jobs[j].periodEnd>>
                 # <<jobs[j + 1].periodStart, jobs[j + 1].periodEnd>>
            /\ \/ jobs[j].periodEnd <= jobs[j + 1].periodStart
               \/ jobs[j + 1].periodEnd <= jobs[j].periodStart
    /\ \A i \in 1..Len(events) : \A b, c \in buckets :
         (CountedIn(i, b) /\ CountedIn(i, c)) => b = c

\* the jobs of two consecutive ticks took overlapping windows (the first
\* read the clock later after its tick than the second did) and an event
\* is counted in the buckets of both
C19_Witness ==
    /\ running /\ Len(jobs) = 2
    /\ jobs[1].pc = "done" /\ jobs[2].pc = "done"
    /\ jobs[1].periodEnd > jobs[2].periodStart
    /\ jobs[1].periodEnd < jobs[2].periodEnd
    /\ \E i \in 1..Len(events) : \E b, c \in buckets :
         /\ b # c /\ CountedIn(i, b) /\ CountedIn(i, c)
         /\ b.event_count = 1 /\ c.event_count = 1

---------------------------------------------------------------------------
(* Claims about the events table *)

\* C20: every stored event has user_id > 0 and a non-empty action, and the
\* ids of the stored events are distinct; a step that changes the events
\* table is a creation request answered 201, which appends exactly one
\* event and leaves every stored event as it was; queries and the steps of
\* aggregation ticks leave the table unchanged.
C20_EventsImmutable ==
    /\ [](\A i \in 1..Len(events) :
            /\ events[i].user_id > 0
            /\ events[i].action # ""
            /\ \A j \in 1..Len(events) :
                 events[i].id = events[j].id => i = j)
    /\ [][events' # events
            => /\ last'.op = "AddEvent" /\ last' # last /\ last'.status = 201
               /\ Len(events') = Len(events) + 1
               /\ \A i \in 1..Len(events) : events'[i] = events[i]]_vars
    /\ [][( \/ last'.op = "GetEvents" /\ last' # last
            \/ jobs' # jobs
            \/ buckets' # buckets
            \/ running' # running )
            => events' = events]_vars

\* two events were created, a tick counted them and a query was answered
C20_Witness ==
    /\ Len(events) = 2 /\ buckets # {}
    /\ \E j \in 1..Len(jobs) : jobs[j].pc = "done" /\ ~jobs[j].err
    /\ last.op = "GetEvents" /\ last.status = 200

\* no job that takes its window from now on can have the instant c in it:
\* a window ends at the time the job reads the clock and is one interval long
PastEveryWindow(c) == clock > c + IntervalTicks

\* C21: while the scheduler stays Running, the windows of successive ticks
\* leave no gap between the period_end of one and the period_start of the
\* next, and every event created once the first window has begun lies in
\* the window of some tick (no event is left behind every window).
C21_NoGapNoMiss ==
    /\ \A j \in 1..(Len(jobs) - 1) :
         (HasWindow(j) /\ HasWindow(j + 1))
         => jobs[j + 1].periodStart <= jobs[j].periodEnd
    /\ \A i \in 1..Len(events) :
         ( /\ Len(jobs) >= 1 /\ HasWindow(1)
           /\ events[i].created_at >= jobs[1].periodStart
           /\ PastEveryWindow(events[i].created_at) )
         => \E j \in 1..Len(jobs) :
              /\ HasWindow(j)
              /\ jobs[j].periodStart <= events[i].created_at
              /\ events[i].created_at < jobs[j].periodEnd

\* two consecutive ticks succeeded, their windows leave a gap, and an
\* event created in the gap is in no bucket
C21_Witness ==
    /\ running /\ Len(jobs) = 2
    /\ jobs[1].pc = "done" /\ ~jobs[1].err
    /\ jobs[2].pc = "done" /\ ~jobs[2].err
    /\ jobs[1].periodEnd < jobs[2].periodStart
    /\ \E i \in 1..Len(events) :
         /\ jobs[1].periodEnd <= events[i].created_at
         /\ events[i].created_at < jobs[2].periodStart
         /\ \A b \in buckets : ~CountedIn(i, b)

=============================================================================
